---- MODULE Spec2Model ----
(***************************************************************************)
(* Model of the Tawa chat layer: the Chat / Message documents, the REST    *)
(* chat controller and the socket gateway (SocketServer).  A handler that  *)
(* loads a document and writes back what it computed from it (the two      *)
(* sends, createOrGetChat, editMessage) is split at its awaits, one action *)
(* per stretch of code between two store accesses, so that such handlers   *)
(* interleave the way the event loop lets them.  A handler whose only      *)
(* write does not depend on any mutable data it loaded (the mark-read      *)
(* paths, join, leave, deleteMessage, the message listing) is one action.  *)
(***************************************************************************)
EXTENDS Integers, Sequences, FiniteSets, Bags, TLC

\* ----- bounds ------------------------------------------------------------
NumUsers == 3
NumServices == 1
MaxChats == 2
MaxMsgs == 2
MaxSockets == 2
MaxOps == 2
MaxClock == 6
MaxEdits == 1
MaxMarkers == 2
MaxPage == 2

\* bookings in the store
MaxBookings == 2

Users == 1..NumUsers
Services == 1..NumServices
ChatIds == 1..MaxChats
SocketIds == 1..MaxSockets

\* A message id handed out by the driver for a document whose insert failed.
LostMessage == 0 - 1

\* canEdit: 5 * 60 * 1000 ms, in minutes
EditWindow == 5

\* query.limit of a message listing: one message a page, or the default
SmallLimit == 1
DefaultLimit == 50

\* A Date field that was never set (editedAt of a message nobody edited).
NoDate == 0 - 1

\* replyTo of a message that answers none
NoReply == 0

\* message contents: what a send carries, what an edit carries, the text
\* messageSchema.methods.deleteMessage writes, and the empty string that the
\* `required` validator of content rejects
Text == "a"
Edited == "b"
Tombstone == "[Message deleted]"
Blank == ""

VARIABLES
    chats,        \* the Chat collection: sequence of documents, _id = index
    messages,     \* the Message collection: sequence of documents, _id = index
    sockets,      \* socket.io connections: state, socket.userId, joined chat rooms
    userSockets,  \* SocketServer.userSockets : userId -> socketId (0 = no entry)
    socketUsers,  \* SocketServer.socketUsers : socketId -> userId (0 = no entry)
    ops,          \* handlers suspended at an await, with their loaded documents
    emitted,      \* what the last step sent out: socket events, HTTP results, dispatches
    cgDone,       \* the createOrGetChat call that responded last
    now,          \* the server clock (Date.now()), in minutes
    bookings,     \* the Booking collection: sequence of documents, _id = index
    reviews       \* the Review collection: sequence of documents, _id = index

vars == <<chats, messages, sockets, userSockets, socketUsers, ops, emitted, cgDone, now,
          bookings, reviews>>

\* ----- documents ---------------------------------------------------------
\* unreadCount: { type: Map, of: Number }; an absent key reads as 0
EmptyUnread == [u \in Users |-> 0]

\* chatSchema.methods.getUnreadCount
getUnreadCount(unreadCount, userId) == unreadCount[userId]

\* new Chat({participants: [userId, otherUserId], serviceId})
NewChat(userId, otherUserId, serviceId) ==
    [participants |-> <<userId, otherUserId>>,
     serviceId    |-> serviceId,
     isActive     |-> TRUE,
     lastMessage  |-> 0,
     unreadCount  |-> EmptyUnread]

\* chat.participants.includes(userId)
IsParticipant(chat, userId) ==
    \E k \in 1..Len(chat.participants) : chat.participants[k] = userId

\* chat.participants.filter((p) => p.toString() !== userId)
otherParticipants(chat, userId) ==
    {chat.participants[k] : k \in 1..Len(chat.participants)} \ {userId}

\* Chat.findById(chatId): the id of the document, 0 when there is none
findById(chatId) == IF chatId \in 1..Len(chats) THEN chatId ELSE 0

\* Message.findById(messageId): the id of the document, 0 when there is none
findMessage(messageId) == IF messageId \in 1..Len(messages) THEN messageId ELSE 0

\* ----- suspended handlers ------------------------------------------------
Idle ==
    [kind |-> "idle", pc |-> "idle", user |-> 0, sock |-> 0, chatId |-> 0,
     other |-> 0, serviceId |-> 0, unreadCount |-> EmptyUnread, msg |-> 0,
     prev |-> 0, prevUser |-> 0, clean |-> FALSE, replyTo |-> NoReply,
     content |-> Blank, at |-> 0, bookingId |-> 0, status |-> "none"]

\* the handlers in flight form a multiset: two of them may be at the same
\* place with the same data
InFlight == BagToSet(ops)

CanStart == BagCardinality(ops) < MaxOps

Start(op) == ops (+) SetToBag({op})

Finish(op) == ops (-) SetToBag({op})

Step(op, next) == (ops (-) SetToBag({op})) (+) SetToBag({next})

\* how many handlers in flight are among S
Copies(S) ==
    LET sum[T \in SUBSET S] ==
            IF T = {} THEN 0
            ELSE LET x == CHOOSE x \in T : TRUE IN CopiesIn(x, ops) + sum[T \ {x}]
    IN  sum[S]

CountAt(pc) == Copies({op \in InFlight : op.pc = pc})

\* something sent out: the event or result `ev`, the request `on` that caused
\* it, the socket it goes to (0: an HTTP response or a call to the notifier),
\* the identity it names (the requester of a response or error, the sender of a
\* message, the reader of a receipt, the addressee of a dispatch), the chat
\* and the message it is about
Event(ev, on, sock, user, chatId, msg) ==
    [ev |-> ev, on |-> on, sock |-> sock, user |-> user, chatId |-> chatId, msg |-> msg]

\* cgDone: who called, what came back (ret, created), whether the call ran
\* with no other call for the same pair and service in flight (clean), and
\* what the call that had responded last when this one arrived returned, if it
\* was clean and for the same pair and service (prev, prevUser)
NoCall == [user |-> 0, other |-> 0, serviceId |-> 0, ret |-> 0,
           created |-> FALSE, clean |-> FALSE, prev |-> 0, prevUser |-> 0]

\* ----- initial state: empty collections, no connection -------------------
Init ==
    /\ chats = << >>
    /\ messages = << >>
    /\ sockets = [s \in SocketIds |-> [state |-> "closed", userId |-> 0, rooms |-> {}]]
    /\ userSockets = [u \in Users |-> 0]
    /\ socketUsers = [s \in SocketIds |-> 0]
    /\ ops = EmptyBag
    /\ emitted = {}
    /\ cgDone = NoCall
    /\ now = 0
    /\ bookings = << >>
    /\ reviews = << >>

\* ----- Chat methods and the save that follows them -----------------------
markAsRead_Decrement(unreadCount, userId) == [unreadCount EXCEPT ![userId] = @ - 1]

\* chatSchema.methods.markAsRead: this.unreadCount.set(userId, 0)
markAsRead(unreadCount, userId) == [unreadCount EXCEPT ![userId] = 0]

\* chatSchema.methods.incrementUnread: read the loaded count, add one, set it
incrementUnread(unreadCount, userId) ==
    [unreadCount EXCEPT ![userId] = getUnreadCount(unreadCount, userId) + 1]

\* this.save() of a loaded chat: $set of the modified unreadCount keys only
SaveUnread(chatId, doc, modified) ==
    [chats EXCEPT ![chatId].unreadCount =
        [u \in Users |-> IF u \in modified THEN doc[u] ELSE @[u]]]

\* ----- delivery ----------------------------------------------------------
IsOpen(s) == s \in SocketIds /\ sockets[s].state = "open"

\* sockets currently in room chat_<chatId>
Room(chatId) == {s \in SocketIds : IsOpen(s) /\ chatId \in sockets[s].rooms}

\* socket.emit(ev): reaches the socket only while it is connected
ToSocket(ev, on, s, userId, chatId, msg) ==
    IF IsOpen(s) THEN {Event(ev, on, s, userId, chatId, msg)} ELSE {}

\* io.to(`chat_${chatId}`).emit(ev)
ToRoom(ev, on, userId, chatId, msg) ==
    {Event(ev, on, s, userId, chatId, msg) : s \in Room(chatId)}

\* res.status(..).json(..) or an error thrown into asyncHandler
Http(ev, on, userId, chatId, msg) == {Event(ev, on, 0, userId, chatId, msg)}

\* ----- REST: createOrGetChat ---------------------------------------------
Matches_Ordered(userId, otherUserId, serviceId) ==
    {c \in 1..Len(chats) :
        /\ chats[c].participants = <<userId, otherUserId>>
        /\ chats[c].serviceId = serviceId
        /\ chats[c].isActive}

\* Chat.findOne({participants: {$all: [userId, otherUserId]}, serviceId, isActive: true})
Matches(userId, otherUserId, serviceId) ==
    {c \in 1..Len(chats) :
        /\ IsParticipant(chats[c], userId)
        /\ IsParticipant(chats[c], otherUserId)
        /\ chats[c].serviceId = serviceId
        /\ chats[c].isActive}

findOne(userId, otherUserId, serviceId) ==
    LET m == Matches(userId, otherUserId, serviceId)
    IN  IF m = {} THEN 0 ELSE CHOOSE c \in m : \A d \in m : c <= d

SameCall(op, userId, otherUserId, serviceId) ==
    /\ op.kind = "createOrGetChat"
    /\ {op.user, op.other} = {userId, otherUserId}
    /\ op.serviceId = serviceId

\* chats that handlers past their find are about to insert
PendingChats == CountAt("create")

\* the calls in flight for the same pair and service are no longer on their own
Overlapped(userId, otherUserId, serviceId) ==
    LET mark(op) == IF SameCall(op, userId, otherUserId, serviceId)
                    THEN [op EXCEPT !.clean = FALSE] ELSE op
        marked == {mark(op) : op \in InFlight}
    IN  [m \in marked |-> Copies({op \in InFlight : mark(op) = m})]

\* lines 49-73: the request arrives and the find resolves
createOrGetChat_find(userId, otherUserId, serviceId) ==
    LET found == findOne(userId, otherUserId, serviceId)
        overlap == \E op \in InFlight : SameCall(op, userId, otherUserId, serviceId)
        last == IF /\ cgDone.ret # 0
                   /\ cgDone.clean
                   /\ {cgDone.user, cgDone.other} = {userId, otherUserId}
                   /\ cgDone.serviceId = serviceId
                THEN cgDone.ret ELSE 0
        call == [Idle EXCEPT !.kind = "createOrGetChat",
                             !.pc = IF found = 0 THEN "create" ELSE "markAsRead",
                             !.user = userId, !.other = otherUserId,
                             !.serviceId = serviceId, !.chatId = found,
                             !.prev = last,
                             !.prevUser = IF last = 0 THEN 0 ELSE cgDone.user,
                             !.clean = ~overlap]
    IN  /\ CanStart
        /\ found = 0 => Len(chats) + PendingChats < MaxChats
        /\ ops' = Overlapped(userId, otherUserId, serviceId) (+) SetToBag({call})
        /\ emitted' = {}
        /\ UNCHANGED <<chats, messages, sockets, userSockets, socketUsers, cgDone, now, bookings, reviews>>

Responded(op, ret, created) ==
    [user |-> op.user, other |-> op.other, serviceId |-> op.serviceId,
     ret |-> ret, created |-> created, clean |-> op.clean,
     prev |-> op.prev, prevUser |-> op.prevUser]

\* lines 74-83: the chat was found; mark it read for the requester, respond 200
createOrGetChat_found(op) ==
    /\ op.kind = "createOrGetChat" /\ op.pc = "markAsRead"
    /\ chats' = SaveUnread(op.chatId,
                           markAsRead(chats[op.chatId].unreadCount, op.user),
                           {op.user})
    /\ cgDone' = Responded(op, op.chatId, FALSE)
    /\ emitted' = Http("http_ok", "createOrGetChat", op.user, op.chatId, 0)
    /\ ops' = Finish(op)
    /\ UNCHANGED <<messages, sockets, userSockets, socketUsers, now, bookings, reviews>>

\* lines 85-102: no chat was found; insert a new one, respond 201
createOrGetChat_create(op) ==
    LET id == Len(chats) + 1
    IN  /\ op.kind = "createOrGetChat" /\ op.pc = "create"
        /\ chats' = Append(chats, NewChat(op.user, op.other, op.serviceId))
        /\ cgDone' = Responded(op, id, TRUE)
        /\ emitted' = Http("http_ok", "createOrGetChat", op.user, id, 0)
        /\ ops' = Finish(op)
        /\ UNCHANGED <<messages, sockets, userSockets, socketUsers, now, bookings, reviews>>

\* ----- Session registry and connections ----------------------------------
\* handleConnection lines 417-418: userSockets.set / socketUsers.set
handleConnection(reg, s, userId) ==
    [userSockets |-> [reg.userSockets EXCEPT ![userId] = s],
     socketUsers |-> [reg.socketUsers EXCEPT ![s] = userId]]

handleDisconnection_Deferred(reg, s, userId) == reg

\* handleDisconnection lines 434-435: userSockets.delete / socketUsers.delete
handleDisconnection(reg, s, userId) ==
    [userSockets |-> [reg.userSockets EXCEPT ![userId] = 0],
     socketUsers |-> [reg.socketUsers EXCEPT ![s] = 0]]

\* socket.broadcast.emit(ev): every connected socket but this one
Broadcast(ev, s, userId) ==
    {Event(ev, "connection", t, userId, 0, 0) : t \in {t \in SocketIds : IsOpen(t) /\ t # s}}

Referenced(s) == \E op \in InFlight : op.sock = s

\* io.on("connection"): the callback calls handleConnection and then
\* handleDisconnection, which deletes the mapping at once (it registers no
\* "disconnect" listener); the other handle* calls only register listeners.
Connection(s, userId) ==
    LET reg == handleDisconnection(
                   handleConnection([userSockets |-> userSockets,
                                     socketUsers |-> socketUsers], s, userId),
                   s, userId)
    IN  /\ ~IsOpen(s) /\ ~Referenced(s)
        /\ \A t \in SocketIds : t < s => IsOpen(t) \/ Referenced(t)
        /\ sockets' = [sockets EXCEPT ![s] = [state |-> "open", userId |-> userId, rooms |-> {}]]
        /\ userSockets' = reg.userSockets
        /\ socketUsers' = reg.socketUsers
        /\ emitted' = Broadcast("user_online", s, userId) \cup Broadcast("user_offline", s, userId)
        /\ UNCHANGED <<chats, messages, ops, cgDone, now, bookings, reviews>>

\* the transport closes: socket.io takes the socket out of its rooms; the
\* server has no listener for it
Disconnect(s) ==
    /\ IsOpen(s)
    /\ sockets' = [sockets EXCEPT ![s] = [state |-> "closed", userId |-> 0, rooms |-> {}]]
    /\ emitted' = {}
    /\ UNCHANGED <<chats, messages, userSockets, socketUsers, ops, cgDone, now, bookings, reviews>>

\* ----- the handshake --------------------------------------------------------
\* User.isBlocked of the accounts: the last account is a blocked one
isBlocked(userId) == userId = NumUsers

\* what a handshake presents: no token, a string jwt.verify rejects, a token
\* past its expiry, or a good token; and the account id it was signed for (0:
\* an account that no longer exists)
Tokens ==
    [kind : {"none", "malformed", "expired", "valid"}, id : {0} \cup Users]

\* the io.use middleware: the identity next() is called with, 0 when it is
\* called with an error
setupMiddleware(token) ==
    IF token.kind = "none" THEN 0
    ELSE IF token.kind \in {"malformed", "expired"} THEN 0
    ELSE IF token.id \notin Users THEN 0
    ELSE token.id

\* lines 377-379, 387-389, 394-396: next(new Error(...)), the connection is refused
handshake_rejected(s, token) ==
    /\ ~IsOpen(s) /\ ~Referenced(s)
    /\ setupMiddleware(token) = 0
    /\ emitted' = {Event("connect_error", "handshake", s, token.id, 0, 0)}
    /\ UNCHANGED <<chats, messages, sockets, userSockets, socketUsers, ops, cgDone, now, bookings, reviews>>

\* lines 391-393: socket.userId is set, next(), and the connection callback runs
handshake(s, token) ==
    /\ setupMiddleware(token) # 0
    /\ Connection(s, setupMiddleware(token))

\* isUserOnline: this.userSockets.has(userId)
isUserOnline(userId) == userSockets[userId] # 0

\* getOnlineUsers: Array.from(this.userSockets.keys())
getOnlineUsers == {u \in Users : userSockets[u] # 0}

\* sendNotificationToUser: the socket userSockets.get(userId) leads to, if any
sendNotificationToUser(userId) ==
    IF userSockets[userId] # 0 THEN {userSockets[userId]} ELSE {}

\* ----- gateway: join_chat / leave_chat -----------------------------------
JoinAllowed_AnyUser(chatId, userId) == findById(chatId) # 0

\* the check of lines 450-451
JoinAllowed(chatId, userId) ==
    findById(chatId) # 0 /\ IsParticipant(chats[chatId], userId)

\* lines 451-454
handleJoinChat_denied(s, chatId) ==
    /\ IsOpen(s)
    /\ ~JoinAllowed(chatId, sockets[s].userId)
    /\ emitted' = ToSocket("error", "join_chat", s, sockets[s].userId, chatId, 0)
    /\ UNCHANGED <<chats, messages, sockets, userSockets, socketUsers, ops, cgDone, now, bookings, reviews>>

\* lines 446-467: the socket joins the room, then chat.markAsRead resolves
\* (joined_chat) or rejects (error, with the room already joined)
handleJoinChat(s, chatId, ok) ==
    LET userId == sockets[s].userId
    IN  /\ IsOpen(s)
        /\ JoinAllowed(chatId, userId)
        /\ sockets' = [sockets EXCEPT ![s].rooms = @ \cup {chatId}]
        /\ IF ok
           THEN /\ chats' = SaveUnread(chatId, markAsRead(chats[chatId].unreadCount, userId),
                                       {userId})
                /\ emitted' = {Event("joined_chat", "join_chat", s, userId, chatId, 0)}
           ELSE /\ chats' = chats
                /\ emitted' = {Event("error", "join_chat", s, userId, chatId, 0)}
        /\ UNCHANGED <<messages, userSockets, socketUsers, ops, cgDone, now, bookings, reviews>>

\* lines 472-477
handleLeaveChat(s, chatId) ==
    /\ IsOpen(s)
    /\ sockets' = [sockets EXCEPT ![s].rooms = @ \ {chatId}]
    /\ emitted' = {Event("left_chat", "leave_chat", s, sockets[s].userId, chatId, 0)}
    /\ UNCHANGED <<chats, messages, userSockets, socketUsers, ops, cgDone, now, bookings, reviews>>

\* ----- gateway: typing / stop_typing ---------------------------------------
\* socket.to(`chat_${chatId}`).emit(ev): the sockets in the room but this one
Relay(ev, on, s, chatId) ==
    {Event(ev, on, t, sockets[s].userId, chatId, 0) : t \in Room(chatId) \ {s}}

\* lines 557-564
handleTyping(s, chatId) ==
    /\ IsOpen(s)
    /\ emitted' = Relay("user_typing", "typing", s, chatId)
    /\ UNCHANGED <<chats, messages, sockets, userSockets, socketUsers, ops, cgDone, now, bookings, reviews>>

\* lines 568-574
handleStopTyping(s, chatId) ==
    /\ IsOpen(s)
    /\ emitted' = Relay("user_stop_typing", "stop_typing", s, chatId)
    /\ UNCHANGED <<chats, messages, sockets, userSockets, socketUsers, ops, cgDone, now, bookings, reviews>>

\* ----- Message.save() of a new message -----------------------------------
\* validation (content is required) runs first, then the pre("save") hook,
\* then the insert: the save resolves ("saved"), or rejects before the hook
\* ("invalid") or after it ("insert_failed")
SaveOutcomes == {"saved", "invalid", "insert_failed"}

Inserted(outcome) == outcome = "saved"

HookUpdated(outcome) == outcome \in {"saved", "insert_failed"}

\* message._id: the index the insert gives it, LostMessage when nothing is inserted
MessageId(outcome) == IF Inserted(outcome) THEN Len(messages) + 1 ELSE LostMessage

\* messageSchema.pre("save"): Chat.findByIdAndUpdate(chatId, {lastMessage: this._id})
preSave(chatId, outcome) ==
    IF HookUpdated(outcome)
    THEN [chats EXCEPT ![chatId].lastMessage = MessageId(outcome)]
    ELSE chats

\* new Message({chatId, sender, content, replyTo}) with the schema defaults;
\* timestamps: true sets createdAt when the document is saved
NewMessage(chatId, sender, content, replyTo) ==
    [chatId    |-> chatId,
     sender    |-> sender,
     content   |-> content,
     createdAt |-> now,
     isDeleted |-> FALSE,
     editedAt  |-> NoDate,
     replyTo   |-> replyTo,
     readBy    |-> {}]

insert(op, outcome) ==
    IF Inserted(outcome)
    THEN Append(messages, NewMessage(op.chatId, op.user, Text, op.replyTo))
    ELSE messages

\* messages that handlers past their load are about to insert
PendingMessages == CountAt("message.save")

\* ----- gateway: send_message ---------------------------------------------
\* the replyTo values a send may carry: none, or a message id
ReplyIds == 0..MaxMsgs

SendAllowed_AnyUser(chatId, userId) == findById(chatId) # 0

\* the check of lines 492-493, and of chatController lines 166-173
SendAllowed(chatId, userId) ==
    findById(chatId) # 0 /\ IsParticipant(chats[chatId], userId)

\* the check of lines 583-587, and of chatController lines 345-352
ReadAllowed(chatId, userId) ==
    findById(chatId) # 0 /\ IsParticipant(chats[chatId], userId)

\* lines 493-496
handleSendMessage_denied(s, chatId) ==
    /\ IsOpen(s)
    /\ ~SendAllowed(chatId, sockets[s].userId)
    /\ emitted' = ToSocket("error", "send_message", s, sockets[s].userId, chatId, 0)
    /\ UNCHANGED <<chats, messages, sockets, userSockets, socketUsers, ops, cgDone, now, bookings, reviews>>

\* lines 492-506: the chat document is loaded
handleSendMessage_load(s, chatId, replyTo) ==
    /\ IsOpen(s) /\ CanStart
    /\ SendAllowed(chatId, sockets[s].userId)
    /\ Len(messages) + PendingMessages < MaxMsgs
    /\ ops' = Start([Idle EXCEPT !.kind = "send_message", !.pc = "message.save",
                                               !.user = sockets[s].userId, !.sock = s,
                                               !.chatId = chatId, !.replyTo = replyTo,
                                               !.unreadCount = chats[chatId].unreadCount])
    /\ emitted' = {}
    /\ UNCHANGED <<chats, messages, sockets, userSockets, socketUsers, cgDone, now, bookings, reviews>>

handleSendMessage_save_NoAwait(op, outcome) ==
    /\ op.kind = "send_message" /\ op.pc = "message.save"
    /\ chats' = preSave(op.chatId, outcome)
    /\ messages' = insert(op, outcome)
    /\ ops' = Step(op, [op EXCEPT !.pc = "incrementUnread", !.msg = Len(messages) + 1])
    /\ emitted' = {}
    /\ UNCHANGED <<sockets, userSockets, socketUsers, cgDone, now, bookings, reviews>>

\* line 508, and the catch of lines 549-552 when the save rejects
handleSendMessage_save(op, outcome) ==
    /\ op.kind = "send_message" /\ op.pc = "message.save"
    /\ chats' = preSave(op.chatId, outcome)
    /\ messages' = insert(op, outcome)
    /\ IF Inserted(outcome)
       THEN /\ ops' = Step(op, [op EXCEPT !.pc = "incrementUnread", !.msg = MessageId(outcome)])
            /\ emitted' = {}
       ELSE /\ ops' = Finish(op)
            /\ emitted' = ToSocket("error", "send_message", op.sock, op.user, op.chatId, 0)
    /\ UNCHANGED <<sockets, userSockets, socketUsers, cgDone, now, bookings, reviews>>

\* the set a loop of incrementUnread calls leaves modified on the loaded document
IncrementAll(unreadCount, others) ==
    [u \in Users |-> IF u \in others THEN incrementUnread(unreadCount, u)[u] ELSE unreadCount[u]]

\* lines 510-516: every other participant, whether or not it is in the room
handleSendMessage_incrementUnread(op) ==
    LET others == otherParticipants(chats[op.chatId], op.user)
        doc == IncrementAll(op.unreadCount, others)
    IN  /\ op.kind = "send_message" /\ op.pc = "incrementUnread"
        /\ chats' = SaveUnread(op.chatId, doc, others)
        /\ ops' = Step(op, [op EXCEPT !.pc = "emit", !.unreadCount = doc])
        /\ emitted' = {}
        /\ UNCHANGED <<messages, sockets, userSockets, socketUsers, cgDone, now, bookings, reviews>>

\* lines 531-546: userSockets.get(participantId), then io.to(socketId).emit
Notifications(userId, chatId, others, msg) ==
    UNION {IF userSockets[p] # 0
           THEN ToSocket("message_notification", "send_message", userSockets[p], userId, chatId, msg)
           ELSE {} : p \in others}

\* lines 518-548
handleSendMessage_emit(op) ==
    LET others == otherParticipants(chats[op.chatId], op.user)
    IN  /\ op.kind = "send_message" /\ op.pc = "emit"
        /\ emitted' = ToRoom("new_message", "send_message", op.user, op.chatId, op.msg)
                        \cup Notifications(op.user, op.chatId, others, op.msg)
        /\ ops' = Finish(op)
        /\ UNCHANGED <<chats, messages, sockets, userSockets, socketUsers, cgDone, now, bookings, reviews>>

\* ----- gateway: mark_read ------------------------------------------------
\* lines 584-587
handleReadReceipt_denied(s, chatId) ==
    /\ IsOpen(s)
    /\ ~ReadAllowed(chatId, sockets[s].userId)
    /\ emitted' = ToSocket("error", "mark_read", s, sockets[s].userId, chatId, 0)
    /\ UNCHANGED <<chats, messages, sockets, userSockets, socketUsers, ops, cgDone, now, bookings, reviews>>

\* $addToSet: readBy gains the element unless an equal one is in it
addToSet(readBy, marker) == readBy \cup {marker}

\* the element of lines 594-596: {user, readAt: new Date()}.  (An _id that
\* the subdocument schema adds when the update is cast can only make more
\* elements differ.)
readMarker(userId) == [user |-> userId, readAt |-> now]

\* lines 590-599: Message.updateMany({_id: {$in: messageIds}, chatId}, {$addToSet: ...})
updateMany(messageIds, chatId, userId) ==
    [m \in 1..Len(messages) |->
        IF m \in messageIds /\ messages[m].chatId = chatId
        THEN [messages[m] EXCEPT !.readBy = addToSet(@, readMarker(userId))]
        ELSE messages[m]]

\* lines 583-609: the read markers, chat.markAsRead, then messages_read to the room
handleReadReceipt(s, chatId, messageIds) ==
    LET userId == sockets[s].userId
    IN  /\ IsOpen(s)
        /\ ReadAllowed(chatId, userId)
        /\ \A m \in messageIds :
              findMessage(m) # 0 => Cardinality(messages[m].readBy) < MaxMarkers
        /\ messages' = IF messageIds # {} THEN updateMany(messageIds, chatId, userId)
                       ELSE messages
        /\ chats' = SaveUnread(chatId, markAsRead(chats[chatId].unreadCount, userId), {userId})
        /\ emitted' = ToRoom("messages_read", "mark_read", userId, chatId, 0)
        /\ UNCHANGED <<sockets, userSockets, socketUsers, ops, cgDone, now, bookings, reviews>>

\* ----- REST: sendMessage -------------------------------------------------
\* lines 166-173: NotFoundError / AuthorizationError
sendMessage_denied(userId, chatId) ==
    /\ ~SendAllowed(chatId, userId)
    /\ emitted' = Http("http_error", "sendMessage", userId, chatId, 0)
    /\ UNCHANGED <<chats, messages, sockets, userSockets, socketUsers, ops, cgDone, now, bookings, reviews>>

\* lines 176-181: Message.findById(replyTo) and its chatId
ReplyValid(chatId, replyTo) ==
    replyTo = NoReply
        \/ (replyTo \in 1..Len(messages) /\ messages[replyTo].chatId = chatId)

\* lines 175-181: ValidationError("Invalid reply message")
sendMessage_invalidReply(userId, chatId, replyTo) ==
    /\ SendAllowed(chatId, userId)
    /\ ~ReplyValid(chatId, replyTo)
    /\ emitted' = Http("http_error", "sendMessage", userId, chatId, 0)
    /\ UNCHANGED <<chats, messages, sockets, userSockets, socketUsers, ops, cgDone, now, bookings, reviews>>

\* lines 166-191
sendMessage_load(userId, chatId, replyTo) ==
    /\ CanStart
    /\ SendAllowed(chatId, userId)
    /\ ReplyValid(chatId, replyTo)
    /\ Len(messages) + PendingMessages < MaxMsgs
    /\ ops' = Start([Idle EXCEPT !.kind = "sendMessage", !.pc = "message.save",
                                               !.user = userId, !.chatId = chatId,
                                               !.replyTo = replyTo,
                                               !.unreadCount = chats[chatId].unreadCount])
    /\ emitted' = {}
    /\ UNCHANGED <<chats, messages, sockets, userSockets, socketUsers, cgDone, now, bookings, reviews>>

\* line 193
sendMessage_save(op, outcome) ==
    /\ op.kind = "sendMessage" /\ op.pc = "message.save"
    /\ chats' = preSave(op.chatId, outcome)
    /\ messages' = insert(op, outcome)
    /\ IF Inserted(outcome)
       THEN /\ ops' = Step(op, [op EXCEPT !.pc = "chat.save", !.msg = MessageId(outcome)])
            /\ emitted' = {}
       ELSE /\ ops' = Finish(op)
            /\ emitted' = Http("http_error", "sendMessage", op.user, op.chatId, 0)
    /\ UNCHANGED <<sockets, userSockets, socketUsers, cgDone, now, bookings, reviews>>

\* lines 209-246: the email and the push dispatch for every other participant
Dispatch(chatId, others, msg) ==
    {Event("email", "sendMessage", 0, p, chatId, msg) : p \in others}
        \cup {Event("push", "sendMessage", 0, p, chatId, msg) : p \in others}

\* lines 199-252: chat.lastMessage = message._id; chat.save(); notifications; 201
sendMessage_finish(op) ==
    LET others == otherParticipants(chats[op.chatId], op.user)
    IN  /\ op.kind = "sendMessage" /\ op.pc = "chat.save"
        /\ chats' = [chats EXCEPT ![op.chatId].lastMessage = op.msg]
        /\ emitted' = Http("http_ok", "sendMessage", op.user, op.chatId, op.msg)
                        \cup Dispatch(op.chatId, others, op.msg)
        /\ ops' = Finish(op)
        /\ UNCHANGED <<messages, sockets, userSockets, socketUsers, cgDone, now, bookings, reviews>>

\* ----- REST: markChatAsRead ----------------------------------------------
\* lines 345-352
markChatAsRead_denied(userId, chatId) ==
    /\ ~ReadAllowed(chatId, userId)
    /\ emitted' = Http("http_error", "markChatAsRead", userId, chatId, 0)
    /\ UNCHANGED <<chats, messages, sockets, userSockets, socketUsers, ops, cgDone, now, bookings, reviews>>

\* lines 345-359
markChatAsRead(userId, chatId) ==
    /\ ReadAllowed(chatId, userId)
    /\ chats' = SaveUnread(chatId, markAsRead(chats[chatId].unreadCount, userId), {userId})
    /\ emitted' = Http("http_ok", "markChatAsRead", userId, chatId, 0)
    /\ UNCHANGED <<messages, sockets, userSockets, socketUsers, ops, cgDone, now, bookings, reviews>>

\* ----- REST: editMessage / deleteMessage / getChatMessages ---------------
\* message ids a request may name: the stored ones and one that is not
MsgIds == 1..(MaxMsgs + 1)

canEdit_Deleted(message, userId) ==
    /\ message.sender = userId
    /\ message.createdAt > now - EditWindow

\* messageSchema.methods.canEdit
canEdit(message, userId) ==
    /\ message.sender = userId
    /\ message.createdAt > now - EditWindow
    /\ ~message.isDeleted

\* editMessage lines 264-294: the status the checks lead to
editStatus(userId, chatId, messageId) ==
    IF findById(chatId) = 0 THEN "http_404"
    ELSE IF ~IsParticipant(chats[chatId], userId) THEN "http_403"
    ELSE IF findMessage(messageId) = 0 \/ messages[messageId].chatId # chatId THEN "http_404"
    ELSE IF ~canEdit(messages[messageId], userId) THEN "http_403"
    ELSE "http_ok"

\* lines 264-294: one of the four refusals
editMessage_denied(userId, chatId, messageId) ==
    /\ editStatus(userId, chatId, messageId) # "http_ok"
    /\ emitted' = Http(editStatus(userId, chatId, messageId), "editMessage",
                       userId, chatId, messageId)
    /\ UNCHANGED <<chats, messages, sockets, userSockets, socketUsers, ops, cgDone, now, bookings, reviews>>

\* lines 264-297: the checks pass; message.editMessage(content) sets content
\* and editedAt = new Date() on the loaded document and starts the save
editMessage_load(userId, chatId, messageId, content) ==
    /\ CanStart
    /\ CountAt("editMessage.save") < MaxEdits
    /\ editStatus(userId, chatId, messageId) = "http_ok"
    /\ ops' = Start([Idle EXCEPT !.kind = "editMessage", !.pc = "editMessage.save",
                                 !.user = userId, !.chatId = chatId,
                                 !.msg = messageId, !.content = content, !.at = now])
    /\ emitted' = {}
    /\ UNCHANGED <<chats, messages, sockets, userSockets, socketUsers, cgDone, now, bookings, reviews>>

\* this.save() of the loaded message: validation, then $set of content and editedAt
editSaved(op) ==
    [messages EXCEPT ![op.msg].content = op.content, ![op.msg].editedAt = op.at]

\* lines 297-304: the save resolves (200) or rejects on the empty content
editMessage_save(op) ==
    /\ op.kind = "editMessage" /\ op.pc = "editMessage.save"
    /\ IF op.content = Blank
       THEN /\ messages' = messages
            /\ emitted' = Http("http_400", "editMessage", op.user, op.chatId, op.msg)
       ELSE /\ messages' = editSaved(op)
            /\ emitted' = Http("http_ok", "editMessage", op.user, op.chatId, op.msg)
    /\ ops' = Finish(op)
    /\ UNCHANGED <<chats, sockets, userSockets, socketUsers, cgDone, now, bookings, reviews>>

DeleteAllowed_AnyUser(message, userId) == TRUE

\* deleteMessage line 323
DeleteAllowed(message, userId) == message.sender = userId

\* deleteMessage lines 314-325: the status the checks lead to
deleteStatus(userId, chatId, messageId) ==
    IF findMessage(messageId) = 0 THEN "http_404"
    ELSE IF messages[messageId].chatId # chatId THEN "http_400"
    ELSE IF ~DeleteAllowed(messages[messageId], userId) THEN "http_403"
    ELSE "http_ok"

\* lines 314-325: NotFoundError / ValidationError / AuthorizationError
deleteMessage_denied(userId, chatId, messageId) ==
    /\ deleteStatus(userId, chatId, messageId) # "http_ok"
    /\ emitted' = Http(deleteStatus(userId, chatId, messageId), "deleteMessage",
                       userId, chatId, messageId)
    /\ UNCHANGED <<chats, messages, sockets, userSockets, socketUsers, ops, cgDone, now, bookings, reviews>>

\* lines 327-335: message.isDeleted = true; message.save().  deletedAt is no
\* path of the schema and is not stored; content is not touched.
deleteMessage(userId, chatId, messageId) ==
    /\ deleteStatus(userId, chatId, messageId) = "http_ok"
    /\ messages' = [messages EXCEPT ![messageId].isDeleted = TRUE]
    /\ emitted' = Http("http_ok", "deleteMessage", userId, chatId, messageId)
    /\ UNCHANGED <<chats, sockets, userSockets, socketUsers, ops, cgDone, now, bookings, reviews>>

\* Message.find({chatId, isDeleted: false}): the ids that match
findVisible(chatId) ==
    {m \in 1..Len(messages) : messages[m].chatId = chatId /\ ~messages[m].isDeleted}

\* .sort({createdAt: -1}): newest first, later insert first among equals
RECURSIVE sortNewestFirst(_)
sortNewestFirst(ids) ==
    IF ids = {} THEN << >>
    ELSE LET top == CHOOSE m \in ids : \A k \in ids :
                        \/ messages[m].createdAt > messages[k].createdAt
                        \/ messages[m].createdAt = messages[k].createdAt /\ m >= k
         IN  <<top>> \o sortNewestFirst(ids \ {top})

\* .skip(skip).limit(limit)
skipLimit(seq, skip, limit) ==
    [i \in 1..(IF Len(seq) - skip < 0 THEN 0
               ELSE IF Len(seq) - skip < limit THEN Len(seq) - skip ELSE limit)
        |-> seq[skip + i]]

\* lines 127-136: the ids on a page
pageOf(ids, page, limit) ==
    LET rows == skipLimit(sortNewestFirst(ids), (page - 1) * limit, limit)
    IN  {rows[i] : i \in 1..Len(rows)}

\* lines 114-121
getChatMessages_denied(userId, chatId) ==
    /\ ~ReadAllowed(chatId, userId)
    /\ emitted' = Http("http_error", "getChatMessages", userId, chatId, 0)
    /\ UNCHANGED <<chats, messages, sockets, userSockets, socketUsers, ops, cgDone, now, bookings, reviews>>

\* lines 123-154: chat.markAsRead, the page of messages, the total count
getChatMessages(userId, chatId, page, limit) ==
    /\ ReadAllowed(chatId, userId)
    /\ chats' = SaveUnread(chatId, markAsRead(chats[chatId].unreadCount, userId), {userId})
    /\ emitted' = {Event("listed", "getChatMessages", 0, userId, chatId, m) :
                      m \in pageOf(findVisible(chatId), page, limit)}
                  \cup Http("http_ok", "getChatMessages", userId, chatId,
                            Cardinality(findVisible(chatId)))
    /\ UNCHANGED <<messages, sockets, userSockets, socketUsers, ops, cgDone, now, bookings, reviews>>

\* ----- REST: archiveChat / getUserChats -----------------------------------
\* archiveChat lines 401-414: the status the checks lead to
archiveStatus(userId, chatId) ==
    IF findById(chatId) = 0 THEN "http_404"
    ELSE IF ~IsParticipant(chats[chatId], userId) THEN "http_403"
    ELSE "http_ok"

\* lines 401-414
archiveChat_denied(userId, chatId) ==
    /\ archiveStatus(userId, chatId) # "http_ok"
    /\ emitted' = Http(archiveStatus(userId, chatId), "archiveChat", userId, chatId, 0)
    /\ UNCHANGED <<chats, messages, sockets, userSockets, socketUsers, ops, cgDone, now, bookings, reviews>>

\* lines 416-423: chat.isActive = false; chat.save()
archiveChat(userId, chatId) ==
    /\ archiveStatus(userId, chatId) = "http_ok"
    /\ chats' = [chats EXCEPT ![chatId].isActive = FALSE]
    /\ emitted' = Http("http_ok", "archiveChat", userId, chatId, 0)
    /\ UNCHANGED <<messages, sockets, userSockets, socketUsers, ops, cgDone, now, bookings, reviews>>

findActive_All(userId) ==
    {c \in 1..Len(chats) : IsParticipant(chats[c], userId)}

\* Chat.find({participants: userId, isActive: true})
findActive(userId) ==
    {c \in 1..Len(chats) : IsParticipant(chats[c], userId) /\ chats[c].isActive}

\* getUserChats lines 21-43: the chats found, each with the caller's unread count
getUserChats(userId) ==
    /\ emitted' = {Event("chat_listed", "getUserChats", 0, userId, c,
                          getUnreadCount(chats[c].unreadCount, userId)) :
                      c \in findActive(userId)}
                  \cup Http("http_ok", "getUserChats", userId, 0, 0)
    /\ UNCHANGED <<chats, messages, sockets, userSockets, socketUsers, ops, cgDone, now, bookings, reviews>>

\* the clock moves on
Tick ==
    /\ now < MaxClock
    /\ \E t \in (now + 1)..MaxClock : now' = t
    /\ emitted' = {}
    /\ UNCHANGED <<chats, messages, sockets, userSockets, socketUsers, ops, cgDone, bookings, reviews>>

\* ----- REST: updateBookingStatus / cancelBooking -------------------------
\* bookingSchema.status.enum
Statuses == {"pending", "confirmed", "in-progress", "completed", "cancelled", "rejected"}

\* updateStatusSchema: the statuses a request may ask for
Requestable == {"confirmed", "in-progress", "completed", "cancelled", "rejected"}

\* new Booking({customer, provider, service, ...}): status defaults to pending
NewBooking(customer, provider, service) ==
    [customer |-> customer, provider |-> provider, service |-> service,
     status |-> "pending"]

\* Booking.findById(bookingId): the id of the document, 0 when there is none
findBooking(bookingId) == IF bookingId \in 1..Len(bookings) THEN bookingId ELSE 0

\* the answer to a request about a booking: an HTTP result that names the
\* booking where a chat response names the message
Answer(ev, on, userId, bookingId) == Http(ev, on, userId, 0, bookingId)

\* the table of updateBookingStatus
validTransitions(currentStatus) ==
    CASE currentStatus = "pending"     -> {"confirmed", "rejected"}
      [] currentStatus = "confirmed"   -> {"in-progress", "cancelled"}
      [] currentStatus = "in-progress" -> {"completed", "cancelled"}
      [] OTHER                         -> {}

\* what updateBookingStatus decides from the booking it has read
updateStatus(userId, bookingId, status) ==
    IF findBooking(bookingId) = 0 THEN "http_404"
    ELSE IF bookings[bookingId].provider # userId THEN "http_403"
    ELSE IF status \notin validTransitions(bookings[bookingId].status) THEN "http_400"
    ELSE "http_ok"

updateBookingStatus_denied(userId, bookingId, status) ==
    /\ updateStatus(userId, bookingId, status) # "http_ok"
    /\ emitted' = Answer(updateStatus(userId, bookingId, status), "updateBookingStatus",
                         userId, bookingId)
    /\ UNCHANGED <<chats, messages, sockets, userSockets, socketUsers, ops, cgDone, now,
                   bookings, reviews>>

\* Booking.findById and the checks; booking.save() is a later step
updateBookingStatus_load(userId, bookingId, status) ==
    /\ CanStart
    /\ updateStatus(userId, bookingId, status) = "http_ok"
    /\ ops' = Start([Idle EXCEPT !.kind = "updateBookingStatus",
                                 !.pc = "updateBookingStatus.save",
                                 !.user = userId, !.bookingId = bookingId,
                                 !.status = status])
    /\ emitted' = {}
    /\ UNCHANGED <<chats, messages, sockets, userSockets, socketUsers, cgDone, now,
                   bookings, reviews>>

\* booking.save() writes the paths the handler modified: status
saveStatus(op) == [bookings EXCEPT ![op.bookingId].status = op.status]

updateBookingStatus_save ==
    \E op \in InFlight :
        /\ op.pc = "updateBookingStatus.save"
        /\ bookings' = saveStatus(op)
        /\ ops' = Finish(op)
        /\ emitted' = Answer("http_ok", "updateBookingStatus", op.user, op.bookingId)
        /\ UNCHANGED <<chats, messages, sockets, userSockets, socketUsers, cgDone, now,
                       reviews>>

\* the statuses cancelBooking accepts
Cancellable == {"pending", "confirmed"}

\* what cancelBooking decides from the booking it has read
cancelStatus(userId, bookingId) ==
    IF findBooking(bookingId) = 0 THEN "http_404"
    ELSE IF bookings[bookingId].customer # userId THEN "http_403"
    ELSE IF bookings[bookingId].status \notin Cancellable THEN "http_400"
    ELSE "http_ok"

cancelBooking_denied(userId, bookingId) ==
    /\ cancelStatus(userId, bookingId) # "http_ok"
    /\ emitted' = Answer(cancelStatus(userId, bookingId), "cancelBooking", userId, bookingId)
    /\ UNCHANGED <<chats, messages, sockets, userSockets, socketUsers, ops, cgDone, now,
                   bookings, reviews>>

cancelBooking_load(userId, bookingId) ==
    /\ CanStart
    /\ cancelStatus(userId, bookingId) = "http_ok"
    /\ ops' = Start([Idle EXCEPT !.kind = "cancelBooking", !.pc = "cancelBooking.save",
                                 !.user = userId, !.bookingId = bookingId,
                                 !.status = "cancelled"])
    /\ emitted' = {}
    /\ UNCHANGED <<chats, messages, sockets, userSockets, socketUsers, cgDone, now,
                   bookings, reviews>>

cancelBooking_save ==
    \E op \in InFlight :
        /\ op.pc = "cancelBooking.save"
        /\ bookings' = saveStatus(op)
        /\ ops' = Finish(op)
        /\ emitted' = Answer("http_ok", "cancelBooking", op.user, op.bookingId)
        /\ UNCHANGED <<chats, messages, sockets, userSockets, socketUsers, cgDone, now,
                       reviews>>

\* ----- REST: createReview ------------------------------------------------
\* the paths reviewSchema requires
RequiredPaths == {"customer", "provider", "service", "booking", "rating", "title", "review"}

\* the paths reviewSchema declares; strict mode drops every other one
SchemaPaths ==
    RequiredPaths \cup {"helpfulVotes", "status", "adminNotes", "isApproved",
                        "moderationNotes", "createdAt", "updatedAt"}

\* the paths createReview puts in reviewData
reviewData ==
    {"booking", "customer", "provider", "service", "rating", "comment",
     "serviceQuality", "communication", "punctuality", "valueForMoney"}

\* document validation on save: every required path is set
validate(paths) == RequiredPaths \subseteq (paths \cap SchemaPaths)

\* reviewSchema.index({booking: 1}, {unique: true}): the insert meets a review
\* of the same booking
duplicateKey(bookingId) == \E r \in 1..Len(reviews) : reviews[r].booking = bookingId

\* what createReview decides from the booking it has read
reviewStatus(userId, bookingId) ==
    IF findBooking(bookingId) = 0 THEN "http_404"
    ELSE IF bookings[bookingId].customer # userId THEN "http_403"
    ELSE IF bookings[bookingId].status # "completed" THEN "http_400"
    ELSE "http_ok"

createReview_denied(userId, bookingId) ==
    /\ reviewStatus(userId, bookingId) # "http_ok"
    /\ emitted' = Answer(reviewStatus(userId, bookingId), "createReview", userId, bookingId)
    /\ UNCHANGED <<chats, messages, sockets, userSockets, socketUsers, ops, cgDone, now,
                   bookings, reviews>>

\* Booking.findById and the checks; the handler keeps booking.provider and
\* booking.service of the document it read
createReview_load(userId, bookingId) ==
    /\ CanStart
    /\ reviewStatus(userId, bookingId) = "http_ok"
    /\ ops' = Start([Idle EXCEPT !.kind = "createReview", !.pc = "createReview.findOne",
                                 !.user = userId, !.bookingId = bookingId,
                                 !.other = bookings[bookingId].provider,
                                 !.serviceId = bookings[bookingId].service,
                                 !.status = bookings[bookingId].status])
    /\ emitted' = {}
    /\ UNCHANGED <<chats, messages, sockets, userSockets, socketUsers, cgDone, now,
                   bookings, reviews>>

\* Review.findOne({booking: bookingId})
createReview_findOne ==
    \E op \in InFlight :
        /\ op.pc = "createReview.findOne"
        /\ IF \E r \in 1..Len(reviews) : reviews[r].booking = op.bookingId
           THEN /\ ops' = Finish(op)
                /\ emitted' = Answer("http_409", "createReview", op.user, op.bookingId)
           ELSE /\ ops' = Step(op, [op EXCEPT !.pc = "createReview.save"])
                /\ emitted' = {}
        /\ UNCHANGED <<chats, messages, sockets, userSockets, socketUsers, cgDone, now,
                       bookings, reviews>>

\* new Review(reviewData)
NewReview(op) ==
    [booking |-> op.bookingId, customer |-> op.user, provider |-> op.other,
     service |-> op.serviceId]

reviewSaved_Unchecked(op) == "http_201"

\* review.save(): validation, then the insert under the unique index
reviewSaved(op) ==
    IF ~validate(reviewData) THEN "http_400"
    ELSE IF duplicateKey(op.bookingId) THEN "http_duplicate"
    ELSE "http_201"

createReview_save ==
    \E op \in InFlight :
        /\ op.pc = "createReview.save"
        /\ reviews' = IF reviewSaved(op) = "http_201"
                      THEN Append(reviews, NewReview(op)) ELSE reviews
        /\ ops' = Finish(op)
        /\ emitted' = Answer(reviewSaved(op), "createReview.save", op.user, op.bookingId)
        /\ UNCHANGED <<chats, messages, sockets, userSockets, socketUsers, cgDone, now,
                       bookings>>

\* ----- the conversation directory on its own -----------------------------
DirectoryNext ==
    \/ \E u \in Users, o \in Users, v \in Services : createOrGetChat_find(u, o, v)
    \/ \E op \in InFlight : createOrGetChat_found(op)
    \/ \E op \in InFlight : createOrGetChat_create(op)

DirectorySpec == Init /\ [][DirectoryNext]_vars

\* ----- messaging in a conversation that exists ---------------------------
\* the state right after user 1 has called createOrGetChat(service 1, user 2)
\* on the empty store and got its 201
ChatInit ==
    /\ chats = <<NewChat(1, 2, 1)>>
    /\ messages = << >>
    /\ sockets = [s \in SocketIds |-> [state |-> "closed", userId |-> 0, rooms |-> {}]]
    /\ userSockets = [u \in Users |-> 0]
    /\ socketUsers = [s \in SocketIds |-> 0]
    /\ ops = EmptyBag
    /\ emitted = Http("http_ok", "createOrGetChat", 1, 1, 0)
    /\ cgDone = [user |-> 1, other |-> 2, serviceId |-> 1, ret |-> 1,
                 created |-> TRUE, clean |-> TRUE, prev |-> 0, prevUser |-> 0]
    /\ now = 0
    /\ bookings = << >>
    /\ reviews = << >>

ChatNext ==
    \/ \E s \in SocketIds, u \in Users : Connection(s, u)
    \/ \E s \in SocketIds : Disconnect(s)
    \/ \E s \in SocketIds, c \in ChatIds : handleJoinChat_denied(s, c)
    \/ \E s \in SocketIds, c \in ChatIds, ok \in BOOLEAN : handleJoinChat(s, c, ok)
    \/ \E s \in SocketIds, c \in ChatIds : handleLeaveChat(s, c)
    \/ \E s \in SocketIds, c \in ChatIds : handleSendMessage_denied(s, c)
    \/ \E s \in SocketIds, c \in ChatIds : handleSendMessage_load(s, c, NoReply)
    \/ \E op \in InFlight, r \in SaveOutcomes : handleSendMessage_save(op, r)
    \/ \E op \in InFlight : handleSendMessage_incrementUnread(op)
    \/ \E op \in InFlight : handleSendMessage_emit(op)
    \/ \E s \in SocketIds, c \in ChatIds : handleReadReceipt_denied(s, c)
    \/ \E s \in SocketIds, c \in ChatIds : handleReadReceipt(s, c, {})
    \/ \E u \in Users, c \in ChatIds : sendMessage_denied(u, c)
    \/ \E u \in Users, c \in ChatIds : sendMessage_load(u, c, NoReply)
    \/ \E op \in InFlight, r \in SaveOutcomes : sendMessage_save(op, r)
    \/ \E op \in InFlight : sendMessage_finish(op)
    \/ \E u \in Users, c \in ChatIds : markChatAsRead_denied(u, c)
    \/ \E u \in Users, c \in ChatIds : markChatAsRead(u, c)

ChatSpec == ChatInit /\ [][ChatNext]_vars

\* ----- editing and deleting the messages of a conversation ---------------
\* the state after user 1 (at minute 0) and user 2 (at minute 1) have each
\* posted a message to chat 1 over REST
EditInit ==
    /\ chats = <<[NewChat(1, 2, 1) EXCEPT !.lastMessage = 2]>>
    /\ messages = <<[chatId |-> 1, sender |-> 1, content |-> Text, createdAt |-> 0,
                     isDeleted |-> FALSE, editedAt |-> NoDate, replyTo |-> NoReply,
                     readBy |-> {}],
                    [chatId |-> 1, sender |-> 2, content |-> Text, createdAt |-> 1,
                     isDeleted |-> FALSE, editedAt |-> NoDate, replyTo |-> NoReply,
                     readBy |-> {}]>>
    /\ sockets = [s \in SocketIds |-> [state |-> "closed", userId |-> 0, rooms |-> {}]]
    /\ userSockets = [u \in Users |-> 0]
    /\ socketUsers = [s \in SocketIds |-> 0]
    /\ ops = EmptyBag
    /\ emitted = Http("http_ok", "sendMessage", 2, 1, 2) \cup Dispatch(1, {1}, 2)
    /\ cgDone = [user |-> 1, other |-> 2, serviceId |-> 1, ret |-> 1,
                 created |-> TRUE, clean |-> TRUE, prev |-> 0, prevUser |-> 0]
    /\ now = 1
    /\ bookings = << >>
    /\ reviews = << >>

EditNext ==
    \/ Tick
    \/ \E u \in Users, c \in ChatIds, m \in MsgIds : editMessage_denied(u, c, m)
    \/ \E u \in Users, c \in ChatIds, m \in MsgIds, x \in {Edited, Blank} :
          editMessage_load(u, c, m, x)
    \/ \E op \in InFlight : editMessage_save(op)
    \/ \E u \in Users, c \in ChatIds, m \in MsgIds : deleteMessage_denied(u, c, m)
    \/ \E u \in Users, c \in ChatIds, m \in MsgIds : deleteMessage(u, c, m)
    \/ \E u \in Users, c \in ChatIds : getChatMessages_denied(u, c)
    \/ \E u \in Users, c \in ChatIds, p \in 1..MaxPage, l \in {SmallLimit, DefaultLimit} :
          getChatMessages(u, c, p, l)

EditSpec == EditInit /\ [][EditNext]_vars

\* ----- replies across two conversations ---------------------------------
\* the state after user 1 has called createOrGetChat(service 1, user 2) and
\* then createOrGetChat(service 1, user 3) on the empty store
ReplyInit ==
    /\ chats = <<NewChat(1, 2, 1), NewChat(1, 3, 1)>>
    /\ messages = << >>
    /\ sockets = [s \in SocketIds |-> [state |-> "closed", userId |-> 0, rooms |-> {}]]
    /\ userSockets = [u \in Users |-> 0]
    /\ socketUsers = [s \in SocketIds |-> 0]
    /\ ops = EmptyBag
    /\ emitted = Http("http_ok", "createOrGetChat", 1, 2, 0)
    /\ cgDone = [user |-> 1, other |-> 3, serviceId |-> 1, ret |-> 2,
                 created |-> TRUE, clean |-> TRUE, prev |-> 0, prevUser |-> 0]
    /\ now = 0
    /\ bookings = << >>
    /\ reviews = << >>

ReplyNext ==
    \/ \E s \in SocketIds, u \in Users : Connection(s, u)
    \/ \E s \in SocketIds, c \in ChatIds, r \in ReplyIds : handleSendMessage_load(s, c, r)
    \/ \E op \in InFlight, r \in SaveOutcomes : handleSendMessage_save(op, r)
    \/ \E op \in InFlight : handleSendMessage_incrementUnread(op)
    \/ \E op \in InFlight : handleSendMessage_emit(op)
    \/ \E u \in Users, c \in ChatIds, r \in ReplyIds : sendMessage_invalidReply(u, c, r)
    \/ \E u \in Users, c \in ChatIds, r \in ReplyIds : sendMessage_load(u, c, r)
    \/ \E op \in InFlight, r \in SaveOutcomes : sendMessage_save(op, r)
    \/ \E op \in InFlight : sendMessage_finish(op)

ReplySpec == ReplyInit /\ [][ReplyNext]_vars

\* ----- read receipts for the messages of a conversation ------------------
\* from the state with two messages in chat 1
ReadNext ==
    \/ \E s \in SocketIds, u \in Users : Connection(s, u)
    \/ \E s \in SocketIds, c \in ChatIds : handleReadReceipt_denied(s, c)
    \/ \E s \in SocketIds, c \in ChatIds, ids \in SUBSET MsgIds : handleReadReceipt(s, c, ids)
    \/ Tick

ReadSpec == EditInit /\ [][ReadNext]_vars

\* ----- the gateway without the message store -----------------------------
GatewayNext ==
    \/ \E s \in SocketIds, t \in Tokens : handshake_rejected(s, t)
    \/ \E s \in SocketIds, t \in Tokens : handshake(s, t)
    \/ \E s \in SocketIds : Disconnect(s)
    \/ \E s \in SocketIds, c \in ChatIds : handleJoinChat_denied(s, c)
    \/ \E s \in SocketIds, c \in ChatIds, ok \in BOOLEAN : handleJoinChat(s, c, ok)
    \/ \E s \in SocketIds, c \in ChatIds : handleLeaveChat(s, c)
    \/ \E s \in SocketIds, c \in ChatIds : handleTyping(s, c)
    \/ \E s \in SocketIds, c \in ChatIds : handleStopTyping(s, c)

GatewaySpec == ChatInit /\ [][GatewayNext]_vars

\* ----- archiving, among the requests that read or write a conversation ---
\* from the state with two messages in chat 1; createOrGetChat is called for
\* the pair and the service of a conversation that exists
ArchiveNext ==
    \/ \E u \in Users, c \in ChatIds : archiveChat_denied(u, c)
    \/ \E u \in Users, c \in ChatIds : archiveChat(u, c)
    \/ \E u \in Users : getUserChats(u)
    \/ \E u \in Users, c \in ChatIds : getChatMessages(u, c, 1, DefaultLimit)
    \/ \E u \in Users, c \in ChatIds : markChatAsRead(u, c)
    \/ \E c \in 1..Len(chats), u \in Users, o \in Users :
          /\ u # o /\ IsParticipant(chats[c], u) /\ IsParticipant(chats[c], o)
          /\ createOrGetChat_find(u, o, chats[c].serviceId)
    \/ \E op \in InFlight : createOrGetChat_found(op)
    \/ \E op \in InFlight : createOrGetChat_create(op)

ArchiveSpec == EditInit /\ [][ArchiveNext]_vars

\* ----- bookings and their reviews ----------------------------------------
\* bookings of customer 1 with one provider each, as createBooking stores them
BookingInit ==
    /\ chats = << >>
    /\ messages = << >>
    /\ sockets = [s \in SocketIds |-> [state |-> "closed", userId |-> 0, rooms |-> {}]]
    /\ userSockets = [u \in Users |-> 0]
    /\ socketUsers = [s \in SocketIds |-> 0]
    /\ ops = EmptyBag
    /\ emitted = {}
    /\ cgDone = NoCall
    /\ now = 0
    /\ bookings = [b \in 1..MaxBookings |-> NewBooking(1, 1 + b, 1)]
    /\ reviews = << >>

BookingNext ==
    \/ \E u \in Users, b \in 1..(MaxBookings + 1), st \in Requestable :
          \/ updateBookingStatus_denied(u, b, st)
          \/ updateBookingStatus_load(u, b, st)
    \/ updateBookingStatus_save
    \/ \E u \in Users, b \in 1..(MaxBookings + 1) :
          \/ cancelBooking_denied(u, b)
          \/ cancelBooking_load(u, b)
          \/ createReview_denied(u, b)
          \/ createReview_load(u, b)
    \/ cancelBooking_save
    \/ createReview_findOne
    \/ createReview_save

BookingSpec == BookingInit /\ [][BookingNext]_vars

\* ----- the status of a booking: at most one updateBookingStatus and at
\* ----- most one cancelBooking between their read and their save
Pending(kind) == Copies({op \in InFlight : op.kind = kind})

LifecycleNext ==
    \/ \E u \in Users, b \in 1..(MaxBookings + 1), st \in Requestable :
          \/ updateBookingStatus_denied(u, b, st)
          \/ Pending("updateBookingStatus") = 0 /\ updateBookingStatus_load(u, b, st)
    \/ updateBookingStatus_save
    \/ \E u \in Users, b \in 1..(MaxBookings + 1) :
          \/ cancelBooking_denied(u, b)
          \/ Pending("cancelBooking") = 0 /\ cancelBooking_load(u, b)
    \/ cancelBooking_save

LifecycleSpec == BookingInit /\ [][LifecycleNext]_vars

\* =========================================================================
\* Properties
\* =========================================================================
Stored(m) == m \in 1..Len(messages)

IsSend(on) == on \in {"send_message", "sendMessage"}

IsError(ev) == ev \in {"error", "http_error"}

C1_Rejected(e) ==
    /\ IsSend(e.on)
    /\ findById(e.chatId) # 0
    /\ ~IsParticipant(chats[e.chatId], e.user)

C1_State ==
    /\ \A k \in 1..Len(messages) : IsParticipant(chats[messages[k].chatId], messages[k].sender)
    /\ \A op \in InFlight :
          op.kind \in {"send_message", "sendMessage"} => IsParticipant(chats[op.chatId], op.user)
    /\ \A e \in emitted :
          C1_Rejected(e) =>
              /\ IsError(e.ev)
              /\ emitted = {e}
              /\ e.sock # 0 => sockets[e.sock].userId = e.user

\* C1: a send (realtime send_message or REST POST message) by an identity
\* that is not a participant of the conversation never gets past the check:
\* every stored message was sent by a participant of its conversation, every
\* send handler in flight (the only thing that writes the unread counters and
\* the last-message pointer on a send) belongs to a participant, whatever
\* answers a send to an existing conversation by a non-participant is one
\* error delivered to that identity alone, and the step that delivers it
\* leaves the chats and the messages as they were.
C1_NonParticipantSendRejected ==
    [][/\ C1_State'
       /\ (\E e \in emitted' : C1_Rejected(e)') => (chats' = chats /\ messages' = messages)]_vars

\* C1: user 3, no participant of chat 1, has just had a send_message to chat 1
\* refused while the chat holds a message
C1_Witness ==
    \E e \in emitted :
        /\ e.ev = "error" /\ e.on = "send_message" /\ e.chatId = 1
        /\ ~IsParticipant(chats[1], e.user)
        /\ Len(messages) >= 1

\* C2: every session in the room of a conversation belongs to a participant
\* of that conversation, and new_message and messages_read events reach only
\* sessions of participants.
C2_RoomMembersAreParticipants ==
    /\ \A s \in SocketIds :
          IsOpen(s) => \A c \in sockets[s].rooms :
                          findById(c) # 0 /\ IsParticipant(chats[c], sockets[s].userId)
    /\ \A e \in emitted :
          e.ev \in {"new_message", "messages_read"} =>
              IsParticipant(chats[e.chatId], sockets[e.sock].userId)

\* C2: a session of user 3 has just been refused join_chat for chat 1, whose
\* room holds a session
C2_Witness ==
    \E e \in emitted :
        /\ e.ev = "error" /\ e.on = "join_chat" /\ e.chatId = 1
        /\ ~IsParticipant(chats[1], e.user)
        /\ Room(1) # {}
        /\ 1 \notin sockets[e.sock].rooms

\* C3: a new_message event always carries a message that is in the message
\* store, a send handler moves on towards the broadcast only with a stored
\* message, and the error of a failed send is the only thing emitted and goes
\* to the sender's socket.
C3_BroadcastAfterStore ==
    /\ \A e \in emitted :
          e.ev = "new_message" =>
              /\ Stored(e.msg)
              /\ messages[e.msg].chatId = e.chatId
              /\ messages[e.msg].sender = e.user
    /\ \A op \in InFlight :
          (op.kind = "send_message" /\ op.pc \in {"incrementUnread", "emit"}) => Stored(op.msg)
    /\ \A e \in emitted :
          (e.ev = "error" /\ e.on = "send_message") =>
              emitted = {e} /\ sockets[e.sock].userId = e.user

\* C3: a stored message has just been broadcast to two sessions in the room
C3_Witness ==
    \E e \in emitted :
        /\ e.ev = "new_message" /\ Stored(e.msg)
        /\ Cardinality({f \in emitted : f.ev = "new_message"}) = 2

\* C4: when createOrGetChat responds to a call for two distinct identities
\* and a service, and the call that had responded last when it arrived was
\* for the same pair (in either order) and the same service and ran on its
\* own, it returns the id that call returned and creates no chat.
C4_SameChatTwice ==
    (cgDone.prev # 0 /\ cgDone.user # cgDone.other) =>
        (cgDone.ret = cgDone.prev /\ ~cgDone.created)

\* C4: the second of two such calls, made by the other user of the first, has responded
C4_Witness ==
    /\ cgDone.prev # 0
    /\ cgDone.user # cgDone.other
    /\ cgDone.prevUser = cgDone.other
    /\ cgDone.ret = cgDone.prev

PairOf(chat) == {chat.participants[k] : k \in 1..Len(chat.participants)}

\* C5: no two active chats have the same unordered participant pair and the
\* same service.
C5_OneActiveChatPerPairAndService ==
    \A c, d \in 1..Len(chats) :
        (/\ c # d
         /\ chats[c].isActive /\ chats[d].isActive
         /\ PairOf(chats[c]) = PairOf(chats[d])
         /\ chats[c].serviceId = chats[d].serviceId) => FALSE

Others(op) == otherParticipants(chats[op.chatId], op.user)

\* C6: unread increments are atomic: the step in which a send writes the
\* unread counter of another participant leaves the stored counter exactly one
\* above what it was just before, whatever other sends and resets ran since
\* the handler loaded the chat (so n sends add n, and a send racing a reset
\* ends as one of the two serial orders would).
C6_IncrementsAreAtomic ==
    [][\A op \in InFlight :
          handleSendMessage_incrementUnread(op) =>
              \A p \in Others(op) :
                  chats'[op.chatId].unreadCount[p] = chats[op.chatId].unreadCount[p] + 1]_vars

\* C7: no unread counter is ever negative, and whenever a mark-read of chat
\* c by reader u has just been answered (the 200 of REST markChatAsRead, the
\* messages_read of realtime mark_read) u's counter for c is exactly 0,
\* whether it was 0 before or not.
C7_MarkReadIdempotent ==
    /\ \A c \in 1..Len(chats) : \A u \in Users : chats[c].unreadCount[u] >= 0
    /\ \A e \in emitted :
          (\/ e.ev = "http_ok" /\ e.on = "markChatAsRead"
           \/ e.ev = "messages_read")
              => chats[e.chatId].unreadCount[e.user] = 0

\* C7: user 2 has just marked chat 1 read over REST, with a message of user 1
\* stored in it
C7_Witness ==
    /\ \E e \in emitted :
          /\ e.ev = "http_ok" /\ e.on = "markChatAsRead" /\ e.user = 2 /\ e.chatId = 1
    /\ \E k \in 1..Len(messages) : messages[k].sender = 1 /\ messages[k].chatId = 1
    /\ chats[1].unreadCount[2] = 0

Offline(userId) == \A s \in SocketIds : IsOpen(s) => sockets[s].userId # userId

\* the count of p in the chat document as the send handler loaded it
Loaded(op, p) ==
    IF op.kind = "send_message" /\ op.pc = "emit" /\ p \in Others(op)
    THEN op.unreadCount[p] - 1 ELSE op.unreadCount[p]

\* nothing but this send has written p's counter since the handler loaded the chat
Undisturbed(op, p) ==
    chats[op.chatId].unreadCount[p] =
        IF op.kind = "send_message" THEN op.unreadCount[p] ELSE Loaded(op, p)

Signalled(e, p) ==
    \/ e.ev \in {"email", "push"} /\ e.user = p
    \/ e.ev = "message_notification" /\ sockets[e.sock].userId = p

\* C8: when a send (the last step of the realtime handler or of the REST
\* handler) completes as the only handler in flight, for a participant p
\* other than the sender that has no live connection and whose unread count
\* was 0 when the send began and was written by nothing else since, p's unread
\* count is 1 afterwards and a notification signal for p has been emitted.
C8_OfflineRecipientCountedAndNotified ==
    [][\A op \in InFlight : \A p \in Users :
          (/\ sendMessage_finish(op) \/ handleSendMessage_emit(op)
           /\ BagCardinality(ops) = 1
           /\ p \in Others(op)
           /\ Offline(p)
           /\ Loaded(op, p) = 0
           /\ Undisturbed(op, p))
          => /\ chats'[op.chatId].unreadCount[p] = 1
             /\ \E e \in emitted' : Signalled(e, p)]_vars

\* C9: when a session gets joined_chat for chat c, its identity's unread
\* counter for c is 0 and every other session in the room of c gets a
\* messages_read event for c.
C9_JoinResetsAndBroadcastsRead ==
    \A e \in emitted :
        e.ev = "joined_chat" =>
            /\ chats[e.chatId].unreadCount[e.user] = 0
            /\ \A t \in Room(e.chatId) \ {e.sock} :
                  \E f \in emitted :
                      f.ev = "messages_read" /\ f.sock = t /\ f.chatId = e.chatId

InRoom(userId, chatId) == \E s \in Room(chatId) : sockets[s].userId = userId

\* C10: the step in which a realtime send writes the unread counters raises
\* by exactly 1 the counter of every other participant that has no session in
\* the chat's room, and leaves the counter of the sender and of every other
\* participant that has a session in the room as it was.
C10_IncrementOnlyOutsideRoom ==
    [][\A op \in InFlight :
          handleSendMessage_incrementUnread(op) =>
              \A p \in Users :
                  chats'[op.chatId].unreadCount[p] =
                      chats[op.chatId].unreadCount[p]
                          + (IF p \in Others(op) /\ ~InRoom(p, op.chatId) THEN 1 ELSE 0)]_vars

\* C11: the gateway takes up a send_message for conversation c (gets past its
\* check and goes on to store and broadcast the message) only for a session
\* that holds room membership for c at that moment: it joined c and has not
\* left.
C11_SendRequiresRoomMembership ==
    [][\A s \in SocketIds, c \in ChatIds, r \in ReplyIds :
          handleSendMessage_load(s, c, r) => c \in sockets[s].rooms]_vars

\* the handlers this step has started
Started(kind) ==
    {op \in BagToSet(ops') : op.kind = kind /\ CopiesIn(op, ops') > CopiesIn(op, ops)}

\* C12: an edit gets past its checks only for the message's sender, with at
\* most EditWindow minutes elapsed since the message was created and the
\* message not soft-deleted; no edit request for a soft-deleted message gets
\* past them, whatever the time; the save of an edit that succeeds replaces
\* the content of that message by the requested one and sets its editedAt,
\* and touches nothing else; a refused edit and an edit whose save is rejected
\* leave every message as it was.
C12_EditOnlyBySenderInWindowNotDeleted ==
    [][/\ \A m \in 1..Len(messages) :
             messages[m].isDeleted =>
                 \A u \in Users, c \in ChatIds : editStatus(u, c, m) # "http_ok"
       /\ \A op \in Started("editMessage") :
             /\ op.at = now
             /\ messages[op.msg].sender = op.user
             /\ now - messages[op.msg].createdAt <= EditWindow
             /\ ~messages[op.msg].isDeleted
       /\ \A e \in emitted' :
             e.on = "editMessage" =>
                 IF e.ev = "http_ok"
                 THEN \E op \in InFlight :
                         /\ op.kind = "editMessage" /\ op.msg = e.msg /\ op.user = e.user
                         /\ op.at # NoDate
                         /\ messages' = [messages EXCEPT ![op.msg].content = op.content,
                                                         ![op.msg].editedAt = op.at]
                 ELSE messages' = messages]_vars

\* C12: a message that its sender edited and then soft-deleted has just had
\* a further edit by its sender refused, inside the edit window
C12_Witness ==
    \E e \in emitted :
        /\ e.ev = "http_403" /\ e.on = "editMessage"
        /\ findMessage(e.msg) # 0
        /\ messages[e.msg].sender = e.user
        /\ messages[e.msg].isDeleted
        /\ messages[e.msg].content = Edited
        /\ messages[e.msg].editedAt # NoDate
        /\ now - messages[e.msg].createdAt < EditWindow

\* C13: every soft-deleted message has the tombstone string as its content
\* (so once the delete has succeeded the content is the tombstone and no later
\* step, an edit saving after the delete included, changes it).
C13_DeletedContentIsTombstone ==
    \A m \in 1..Len(messages) : messages[m].isDeleted => messages[m].content = Tombstone

\* every message ever appended to a conversation
AllOf(chatId) == {m \in 1..Len(messages) : messages[m].chatId = chatId}

\* C14: a listing of page p of a conversation, l messages a page, returns
\* the messages of that page of the whole history, soft-deleted ones included
\* (so the ids over all pages are the ids of all messages ever appended).
C14_ListingKeepsDeletedMessages ==
    [][\A u \in Users, c \in ChatIds, p \in 1..MaxPage, l \in {SmallLimit, DefaultLimit} :
          getChatMessages(u, c, p, l) =>
              {e.msg : e \in {f \in emitted' : f.ev = "listed"}} = pageOf(AllOf(c), p, l)]_vars

IsMutation(on) == on \in {"editMessage", "deleteMessage"}

\* C15: an edit or a soft-delete of a stored message requested by anyone but
\* its sender is answered with an error, a 403 when the request names the
\* message's own conversation, and changes no message; an edit gets past its
\* checks only for the sender; and a step that changes the content, the
\* deleted flag or editedAt of a message is the success of an edit or a delete
\* requested by that message's sender.
C15_OnlySenderMutates ==
    [][/\ \A e \in emitted' :
             (/\ IsMutation(e.on)
              /\ findMessage(e.msg) # 0
              /\ messages[e.msg].sender # e.user)
             => /\ e.ev # "http_ok"
                /\ messages' = messages
                /\ e.chatId = messages[e.msg].chatId => e.ev = "http_403"
       /\ \A op \in Started("editMessage") : messages[op.msg].sender = op.user
       /\ \A m \in 1..Len(messages) :
             (\/ messages'[m].content # messages[m].content
              \/ messages'[m].isDeleted # messages[m].isDeleted
              \/ messages'[m].editedAt # messages[m].editedAt)
             => \E e \in emitted' :
                   /\ IsMutation(e.on) /\ e.ev = "http_ok"
                   /\ e.msg = m /\ e.user = messages[m].sender]_vars

\* C15: a participant that is not the sender of a message its sender has
\* edited has just had its delete of that message refused with a 403
C15_Witness ==
    \E e \in emitted :
        /\ e.ev = "http_403" /\ e.on = "deleteMessage"
        /\ findMessage(e.msg) # 0
        /\ messages[e.msg].sender # e.user
        /\ IsParticipant(chats[messages[e.msg].chatId], e.user)
        /\ messages[e.msg].content = Edited
        /\ ~messages[e.msg].isDeleted

\* C16: the replyTo of every stored message, if present, is the id of a
\* stored message of the same conversation.
C16_ReplyInSameConversation ==
    \A m \in 1..Len(messages) :
        messages[m].replyTo # NoReply =>
            /\ findMessage(messages[m].replyTo) # 0
            /\ messages[messages[m].replyTo].chatId = messages[m].chatId

\* C17: every message holds at most one read marker for an identity.
C17_OneReadMarkerPerIdentity ==
    \A m \in 1..Len(messages) :
        \A a, b \in messages[m].readBy : a.user = b.user => a = b

LiveSessions(userId) == {s \in SocketIds : IsOpen(s) /\ sockets[s].userId = userId}

\* C18: an identity has at most one live session: a second connection for
\* an identity that has one leaves exactly one of the two open.
C18_OneLiveSessionPerIdentity ==
    \A u \in Users : Cardinality(LiveSessions(u)) <= 1

\* C19: an identity that has a live session has an entry in the session
\* registry: isUserOnline holds for it, getOnlineUsers lists it, and the
\* lookup of its socket gives one of its live sessions.
C19_LiveSessionIsRegistered ==
    \A s \in SocketIds :
        IsOpen(s) =>
            /\ isUserOnline(sockets[s].userId)
            /\ sockets[s].userId \in getOnlineUsers
            /\ sendNotificationToUser(sockets[s].userId) \subseteq LiveSessions(sockets[s].userId)
            /\ sendNotificationToUser(sockets[s].userId) # {}
            /\ socketUsers[s] = sockets[s].userId

\* C20: user_offline is announced for an identity only when its session has
\* disconnected: no user_offline names an identity that has a live session.
C20_OfflineOnlyOnDisconnect ==
    \A e \in emitted : e.ev = "user_offline" => LiveSessions(e.user) = {}

\* C21: no connection is in the authenticated state (open, with its
\* handlers registered and able to join rooms) for a blocked account, and
\* what a refused handshake leaves behind is a closed connection.
C21_BlockedNeverAuthenticated ==
    /\ \A s \in SocketIds : IsOpen(s) => ~isBlocked(sockets[s].userId)
    /\ \A e \in emitted : e.ev = "connect_error" => ~IsOpen(e.sock)

\* C22: a typing or stop_typing event for a conversation from a session
\* that is not in that conversation's room is relayed to nobody.
C22_TypingOnlyFromRoomMembers ==
    [][\A s \in SocketIds, c \in ChatIds :
          ((handleTyping(s, c) \/ handleStopTyping(s, c)) /\ c \notin sockets[s].rooms)
              => emitted' = {}]_vars

\* the messages of a conversation
MessagesOf(c) == {m \in 1..Len(messages) : messages[m].chatId = c}

\* C23: a REST send and a realtime send by the same sender from the same
\* conversation state have the same store effect: when user 1 has sent one
\* message (no reply) to each of its two conversations, both fresh, and no
\* handler is in flight, the two conversations agree, by whichever path each
\* message went:
\* each points to its own message as the last one and the unread counter of
\* the other participant is the same in both.
C23_RestAndRealtimeSendAgree ==
    (/\ ops = EmptyBag
     /\ Len(chats) = 2
     /\ \A c \in 1..2 : Cardinality(MessagesOf(c)) = 1
     /\ \A m \in 1..Len(messages) :
           messages[m].sender = 1 /\ messages[m].replyTo = NoReply)
    => /\ \A c \in 1..2 : chats[c].lastMessage \in MessagesOf(c)
       /\ chats[1].unreadCount[chats[1].participants[2]]
              = chats[2].unreadCount[chats[2].participants[2]]

\* C24: every conversation in the store has exactly two participants, and
\* they are two distinct identities.
C24_TwoDistinctParticipants ==
    \A c \in 1..Len(chats) :
        /\ Len(chats[c].participants) = 2
        /\ chats[c].participants[1] # chats[c].participants[2]

\* C25: an archive request succeeds only for a participant of the
\* conversation, and a refused one changes no conversation; a conversation
\* goes inactive only by such a success and an inactive conversation never
\* becomes active again; a conversation listing names only active
\* conversations of the caller; and the participants of an inactive
\* conversation still pass the check of the message listing.
C25_ArchivedStaysOutOfListing ==
    [][/\ \A c \in 1..Len(chats) :
             /\ ~chats[c].isActive => ~chats'[c].isActive
             /\ (chats[c].isActive /\ ~chats'[c].isActive) =>
                   \E e \in emitted' :
                       /\ e.on = "archiveChat" /\ e.ev = "http_ok" /\ e.chatId = c
                       /\ IsParticipant(chats[c], e.user)
             /\ ~chats[c].isActive =>
                   \A u \in Users : IsParticipant(chats[c], u) => ReadAllowed(c, u)
       /\ \A e \in emitted' :
             /\ (e.on = "archiveChat" /\ e.ev # "http_ok") => chats' = chats
             /\ (e.on = "archiveChat" /\ e.ev = "http_ok") =>
                   IsParticipant(chats[e.chatId], e.user) /\ ~chats'[e.chatId].isActive
             /\ e.ev = "chat_listed" =>
                   chats'[e.chatId].isActive /\ IsParticipant(chats'[e.chatId], e.user)]_vars

\* C25: a participant of an archived conversation that holds a message has
\* just listed its conversations, and the archived one is not among them
C25_Witness ==
    \E c \in 1..Len(chats), e \in emitted :
        /\ ~chats[c].isActive
        /\ MessagesOf(c) # {}
        /\ e.on = "getUserChats" /\ e.ev = "http_ok"
        /\ IsParticipant(chats[c], e.user)
        /\ \A f \in emitted : f.ev = "chat_listed" => f.chatId # c

Edges ==
    {<<"pending", "confirmed">>, <<"pending", "rejected">>, <<"pending", "cancelled">>,
     <<"confirmed", "in-progress">>, <<"confirmed", "cancelled">>,
     <<"in-progress", "completed">>, <<"in-progress", "cancelled">>}

\* C30: the stored status of a booking changes only along the edges of the
\* lifecycle, so a status of completed, cancelled or rejected never changes.
C30_StatusFollowsLifecycle ==
    [][\A b \in 1..Len(bookings) :
           bookings'[b].status # bookings[b].status =>
               <<bookings[b].status, bookings'[b].status>> \in Edges]_vars

\* C27: a step that answers a join_chat with an error event leaves the joined
\* rooms of the session that asked as they were.
C27_FailedJoinKeepsRooms ==
    [][\A e \in emitted' :
           (e.ev = "error" /\ e.on = "join_chat") =>
               sockets'[e.sock].rooms = sockets[e.sock].rooms]_vars

\* the message of a conversation that was created last
Newest(c) == CHOOSE m \in MessagesOf(c) : \A k \in MessagesOf(c) : k <= m

\* C28: the lastMessage of a conversation, when set, is a stored message of
\* that conversation, and with no send in flight it is the message of the
\* conversation that was created last.
C28_LastMessageIsNewest ==
    \A c \in 1..Len(chats) :
        chats[c].lastMessage # 0 =>
            /\ chats[c].lastMessage \in MessagesOf(c)
            /\ ops = EmptyBag => chats[c].lastMessage = Newest(c)

====
